---- MODULE Spec2Model ----
(***************************************************************************)
(* Model of coastal_construction_app.py: a Streamlit script that is run    *)
(* top to bottom on every user interaction.  The only state that survives  *)
(* a run is st.session_state.page; everything else is a widget value or a  *)
(* script local of the branch the run executes.                            *)
(*                                                                         *)
(* Number representation (TLC has integers only):                          *)
(*   Hs            hundredths of a metre (the float slider's step is 0.01) *)
(*   Hs_array      1/(100*(N-1)) metre                                     *)
(*   angle         whole degrees (integer slider)                          *)
(*   angle_array   1/(N-1) degree                                          *)
(*   radians, sin  fixed point, SinScale units per 1.0                     *)
(*   gradient      exact fractions [num, den]                              *)
(***************************************************************************)
EXTENDS Integers, Sequences, FiniteSets, TLC

VARIABLES
    page,             \* st.session_state.page
    rendered,         \* the branch of the if/elif chain the last run executed
    clicked,          \* the button whose click triggered the last run, or None
    shown,            \* the output elements the last run produced
    Hs, Tp, angle,    \* wave page sliders
    Hs_array, angle_array,
    TA, DIC,          \* chemistry page number inputs
    omega,            \* what carbonate_impact did: a value, or Raise
    chemFailed,       \* an earlier run of this session showed the chemistry error
    uploaded,         \* bathymetry page: the uploaded file
    erosion, flood, exposure,
    risk_index,       \* risk page, hundredths
    area, cost_per_m2, total_cost,
    call, ret         \* a direct call of a core function and its return value

vars == <<page, rendered, clicked, shown, Hs, Tp, angle, Hs_array, angle_array,
          TA, DIC, omega, chemFailed, uploaded, erosion, flood, exposure,
          risk_index, area, cost_per_m2, total_cost, call, ret>>

None == "None"

Max(a, b) == IF a >= b THEN a ELSE b
Min(a, b) == IF a <= b THEN a ELSE b

-----------------------------------------------------------------------------
(* Program constants *)

N == 20                 \* np.linspace(..., 20)
dx == 100               \* predict_shoreline_change
K100 == 77              \* K = 0.77, in hundredths
HsMin == 50             \* slider 0.5 .. 5.0, default 2.0
HsMax == 500
HsDefault == 200
HsHalfWidth == 50       \* Hs - 0.5, Hs + 0.5
HsFloor == 10           \* max(0.1, ...)
TpMin == 4              \* slider 4 .. 20, default 8
TpMax == 20
TpDefault == 8
AngleMin == 0           \* slider 0 .. 90, default 20
AngleMax == 90
AngleDefault == 20
AngleHalfWidth == 10
AngleFloor == 0
AngleCeil == 90
TAMin == 2000           \* number_input 2000 .. 2500, default 2300
TAMax == 2500
TADefault == 2300
DICMin == 1800          \* number_input 1800 .. 2300, default 2100
DICMax == 2300
DICDefault == 2100
RiskMin == 1            \* sliders 1 .. 10, default 5
RiskMax == 10
RiskDefault == 5
AreaDefault == 1000
CostDefault == 1200

-----------------------------------------------------------------------------
(* np.linspace(start, stop, num): num samples start + i*step with          *)
(* step = (stop-start)/(num-1); the last sample is then set to stop.       *)
(* The result is in units of 1/(num-1) of the unit of start and stop.      *)
Linspace(start, stop, num) ==
    [i \in 1..num |->
        IF i = num /\ num > 1
        THEN stop * (num - 1)
        ELSE start * (num - 1) + (i - 1) * (stop - start)]

HsLoM(hs) == hs - HsHalfWidth
HsLo(hs) == Max(HsFloor, hs - HsHalfWidth)
HsHi(hs) == hs + HsHalfWidth
AngleLo(a) == Max(AngleFloor, a - AngleHalfWidth)
AngleHiM(a) == a + AngleHalfWidth
AngleHi(a) == Min(a + AngleHalfWidth, AngleCeil)

HsSweep(hs) == Linspace(HsLo(hs), HsHi(hs), N)
AngleSweep(a) == Linspace(AngleLo(a), AngleHi(a), N)

-----------------------------------------------------------------------------
(* Fixed-point stand-ins for np.radians and np.sin.  PiFP is pi rounded    *)
(* down to the working precision, as the double nearest pi lies below pi;  *)
(* PiHi is pi to the next digit, used as libm does for the reduction       *)
(* sin(x) = sin(pi - x) of an argument beyond pi/2.  So Sin of the         *)
(* working-precision pi is a small positive residue, not 0, which is what  *)
(* np.sin(np.pi) = 1.22e-16 is.                                            *)
SinScale == 10000
PiFP == 31415
PiHi == 31416
HalfPi == 15708
SinTol == PiHi - 2 * (PiFP \div 2)   \* pi minus the working-precision pi

Radians(deg) == (deg * PiFP) \div 180

RoundDiv(n, d) == (2 * n + d) \div (2 * d)      \* n/d to the nearest unit

SinPoly(r) ==
    LET r2 == RoundDiv(r * r, SinScale)
        t3 == RoundDiv(r * r2, 6 * SinScale)
        t5 == RoundDiv(t3 * r2, 20 * SinScale)
        t7 == RoundDiv(t5 * r2, 42 * SinScale)
        t9 == RoundDiv(t7 * r2, 72 * SinScale)
    IN  Min(SinScale, r - t3 + t5 - t7 + t9)    \* a sine is never above 1

Sin(x) == IF x <= HalfPi THEN SinPoly(x) ELSE SinPoly(PiHi - x)

(* estimate_sediment_transport: K * Hs**2 * sin(2*radians(angle)) * Tp.    *)
(* h is Hs in half metres; the result is a numerator over QDen.            *)
QDen == 100 * 4 * SinScale
SedimentSinOfAngle(h, a, t) == K100 * h * h * Sin(Radians(a)) * t
estimate_sediment_transport(h, a, t) ==
    K100 * h * h * Sin(2 * Radians(a)) * t

(* np.gradient(f, h): central differences inside, one-sided at both ends.  *)
Frac(n, d) == [num |-> n, den |-> d]
GradientOneSided(f, h) ==
    [i \in 1..Len(f) |->
        IF i = Len(f) THEN Frac(f[i] - f[i-1], h) ELSE Frac(f[i+1] - f[i], h)]
Gradient(f, h) ==
    [i \in 1..Len(f) |->
        IF i = 1 THEN Frac(f[2] - f[1], h)
        ELSE IF i = Len(f) THEN Frac(f[i] - f[i-1], h)
        ELSE Frac(f[i+1] - f[i-1], 2 * h)]

PredictNoNegation(Q) == Gradient(Q, dx)
predict_shoreline_change(Q) ==
    LET dQdx == Gradient(Q, dx)
    IN  [i \in 1..Len(Q) |-> Frac(0 - dQdx[i].num, dQdx[i].den)]

-----------------------------------------------------------------------------
(* The pages and what a run of each renders *)

Modules == {"wave", "chemistry", "bathymetry", "risk", "mapping", "cost"}
Pages == {"welcome", "menu"} \cup Modules
Buttons == {"Start", "Back", "Download"} \cup Modules

(* What the uploader holds: nothing, a file pd.read_csv rejects, or a      *)
(* table, of which the page reads the column names only.                   *)
Columns == {"latitude", "longitude", "Latitude", "depth"}
NoFile == [kind |-> "none", columns |-> {}]
Unparseable == [kind |-> "unparseable", columns |-> {}]
Table(cols) == [kind |-> "table", columns |-> cols]
Files == {NoFile, Unparseable} \cup {Table(c) : c \in (SUBSET Columns) \ {{}}}

(* The buttons the user can click are those the last run put on screen.    *)
Clickable == (shown \cap Buttons) \cup {None}

(* if st.button(label): st.session_state.page = ...   A button returns     *)
(* True only in the run its click triggered, and only if that run          *)
(* reaches the st.button call.                                             *)
StartButton(p, click) == IF click = "Start" THEN "menu" ELSE p
MenuButtons(p, click) == IF click \in Modules THEN click ELSE p
BackToWelcome(p, click) == IF click = "Back" THEN "welcome" ELSE p
BackButton(p, click) == IF click = "Back" THEN "menu" ELSE p

NoWave == /\ Hs' = None /\ Tp' = None /\ angle' = None
          /\ Hs_array' = None /\ angle_array' = None
NoChem == TA' = None /\ DIC' = None /\ omega' = None
NoBathy == uploaded' = None
NoRisk == /\ erosion' = None /\ flood' = None /\ exposure' = None
          /\ risk_index' = None
NoCost == area' = None /\ cost_per_m2' = None /\ total_cost' = None

(* A widget the previous run did not render starts from its default; a     *)
(* run triggered by a button click finds the widgets as they were; in a    *)
(* run triggered by a widget the user has set the new values.              *)
WidgetsOK(p, click, new, old, default) ==
    IF rendered # p THEN new = default
    ELSE IF click # None THEN new = old
    ELSE TRUE

WelcomeRun(click) ==
    /\ page = "welcome"
    /\ click \in Clickable
    /\ page' = StartButton(page, click)
    /\ rendered' = "welcome"
    /\ clicked' = click
    /\ shown' = {"title", "image", "Start"}
    /\ NoWave /\ NoChem /\ NoBathy /\ NoRisk /\ NoCost
    /\ UNCHANGED <<chemFailed, call, ret>>

MenuRun(click) ==
    /\ page = "menu"
    /\ click \in Clickable
    /\ page' = MenuButtons(page, click)
    /\ rendered' = "menu"
    /\ clicked' = click
    /\ shown' = {"title"} \cup Modules
    /\ NoWave /\ NoChem /\ NoBathy /\ NoRisk /\ NoCost
    /\ UNCHANGED <<chemFailed, call, ret>>

WaveRun(click, h, t, a) ==
    /\ page = "wave"
    /\ click \in Clickable
    /\ h \in HsMin..HsMax /\ t \in TpMin..TpMax /\ a \in AngleMin..AngleMax
    /\ WidgetsOK("wave", click, <<h, t, a>>, <<Hs, Tp, angle>>,
                 <<HsDefault, TpDefault, AngleDefault>>)
    /\ Hs' = h /\ Tp' = t /\ angle' = a
    /\ Hs_array' = HsSweep(h)
    /\ angle_array' = AngleSweep(a)
    \* wave_energy, Q_sed and shoreline_change are locals computed from the
    \* two sweeps and drawn in the chart; the functions that compute them
    \* are applied in CallSediment and CallShoreline.
    /\ shown' = {"title", "chart", "Download", "Back"}
    /\ page' = BackButton(page, click)
    /\ rendered' = "wave"
    /\ clicked' = click
    /\ NoChem /\ NoBathy /\ NoRisk /\ NoCost
    /\ UNCHANGED <<chemFailed, call, ret>>

(* Chemistry page.  carbonate_impact calls the external solver: o is what  *)
(* the call does in this run, a saturation value or Raise (an exception).  *)
(* The solver is deterministic: unchanged inputs give the unchanged result.*)
MaxOmega == 3
Raise == [raised |-> TRUE, value |-> 0]
Value(v) == [raised |-> FALSE, value |-> v]
Outcomes == {Raise} \cup {Value(v) : v \in 1..MaxOmega}

TryCarbonateNoExcept(o) == IF o.raised THEN {"exception"} ELSE {"metric"}
TryCarbonate(o) == IF o.raised THEN {"error"} ELSE {"metric"}

(* An exception nobody catches ends the run: nothing below it is rendered  *)
(* and no button below it is evaluated.                                    *)
Aborted(elements) == "exception" \in elements
BackIfReached(elements, p, click) ==
    IF Aborted(elements) THEN p ELSE BackButton(p, click)
BackShown(elements) == IF Aborted(elements) THEN {} ELSE {"Back"}

ChemistryRun(click, ta, dic, o) ==
    /\ page = "chemistry"
    /\ click \in Clickable
    /\ ta \in TAMin..TAMax /\ dic \in DICMin..DICMax /\ o \in Outcomes
    /\ WidgetsOK("chemistry", click, <<ta, dic>>, <<TA, DIC>>,
                 <<TADefault, DICDefault>>)
    /\ (rendered = "chemistry" /\ <<ta, dic>> = <<TA, DIC>>) => o = omega
    /\ TA' = ta /\ DIC' = dic /\ omega' = o
    /\ LET body == TryCarbonate(o)
       IN  /\ shown' = {"title", "TA", "DIC"} \cup body \cup BackShown(body)
           /\ page' = BackIfReached(body, page, click)
    /\ chemFailed' = (chemFailed \/ o.raised)
    /\ rendered' = "chemistry"
    /\ clicked' = click
    /\ NoWave /\ NoBathy /\ NoRisk /\ NoCost
    /\ UNCHANGED <<call, ret>>

(* Bathymetry page. *)
HasLatOrLon(cols) == "latitude" \in cols \/ "longitude" \in cols
HasLatLon(cols) == "latitude" \in cols /\ "longitude" \in cols

BathymetryBody(file) ==
    IF file.kind = "none" THEN {}
    ELSE IF file.kind = "unparseable" THEN {"exception"}
    ELSE {"table"} \cup (IF HasLatLon(file.columns) THEN {"map"} ELSE {})

BathymetryRun(click, file) ==
    /\ page = "bathymetry"
    /\ click \in Clickable
    /\ file \in Files
    /\ WidgetsOK("bathymetry", click, file, uploaded, NoFile)
    /\ uploaded' = file
    /\ LET body == BathymetryBody(file)
       IN  /\ shown' = {"title", "uploader"} \cup body \cup BackShown(body)
           /\ page' = BackIfReached(body, page, click)
    /\ rendered' = "bathymetry"
    /\ clicked' = click
    /\ NoWave /\ NoChem /\ NoRisk /\ NoCost
    /\ UNCHANGED <<chemFailed, call, ret>>

(* Risk page: round((erosion + flood + exposure) / 3, 2), in hundredths.   *)
RiskIndex(e, f, x) == ((e + f + x) * 200 + 3) \div 6

RiskRun(click, e, f, x) ==
    /\ page = "risk"
    /\ click \in Clickable
    /\ {e, f, x} \subseteq RiskMin..RiskMax
    /\ WidgetsOK("risk", click, <<e, f, x>>, <<erosion, flood, exposure>>,
                 <<RiskDefault, RiskDefault, RiskDefault>>)
    /\ erosion' = e /\ flood' = f /\ exposure' = x
    /\ risk_index' = RiskIndex(e, f, x)
    /\ shown' = {"title", "metric", "Back"}
    /\ page' = BackButton(page, click)
    /\ rendered' = "risk"
    /\ clicked' = click
    /\ NoWave /\ NoChem /\ NoBathy /\ NoCost
    /\ UNCHANGED <<chemFailed, call, ret>>

MappingRun(click) ==
    /\ page = "mapping"
    /\ click \in Clickable
    /\ shown' = {"title", "info", "Back"}
    /\ page' = BackButton(page, click)
    /\ rendered' = "mapping"
    /\ clicked' = click
    /\ NoWave /\ NoChem /\ NoBathy /\ NoRisk /\ NoCost
    /\ UNCHANGED <<chemFailed, call, ret>>

(* Cost page: two number inputs without min_value or max_value.            *)
TotalCostSum(a, c) == a + c
TotalCost(a, c) == a * c

CostRun(click, a, c) ==
    /\ page = "cost"
    /\ click \in Clickable
    /\ a \in Int /\ c \in Int
    /\ WidgetsOK("cost", click, <<a, c>>, <<area, cost_per_m2>>,
                 <<AreaDefault, CostDefault>>)
    /\ area' = a /\ cost_per_m2' = c
    /\ total_cost' = TotalCost(a, c)
    /\ shown' = {"title", "metric", "Back"}
    /\ page' = BackButton(page, click)
    /\ rendered' = "cost"
    /\ clicked' = click
    /\ NoWave /\ NoChem /\ NoBathy /\ NoRisk
    /\ UNCHANGED <<chemFailed, call, ret>>

-----------------------------------------------------------------------------
(* Direct calls of the two core functions the wave page applies to its     *)
(* sweeps, on inputs of their own.                                         *)

UIVars == <<page, rendered, clicked, shown, Hs, Tp, angle, Hs_array,
            angle_array, TA, DIC, omega, chemFailed, uploaded, erosion, flood,
            exposure, risk_index, area, cost_per_m2, total_cost>>

SedimentCall(h, a, t) ==
    [fn |-> "estimate_sediment_transport", returned |-> FALSE,
     Hs |-> h, angle |-> a, Tp |-> t]
ShorelineCall(Q) ==
    [fn |-> "predict_shoreline_change", returned |-> FALSE, Q_sed |-> Q]

CallSediment ==
    /\ call.fn = "estimate_sediment_transport" /\ ~call.returned
    /\ ret' = estimate_sediment_transport(call.Hs, call.angle, call.Tp)
    /\ call' = [call EXCEPT !.returned = TRUE]
    /\ UNCHANGED UIVars

CallShoreline ==
    /\ call.fn = "predict_shoreline_change" /\ ~call.returned
    /\ Len(call.Q_sed) >= 2
    /\ ret' = predict_shoreline_change(call.Q_sed)
    /\ call' = [call EXCEPT !.returned = TRUE]
    /\ UNCHANGED UIVars

-----------------------------------------------------------------------------
(* Bounds of the model: the values the user is taken to enter *)

MaxBase == 2
MaxSlope == 2
MaxBump == 2

HsChoices == {HsMin, HsDefault, HsMax}
TpChoices == {TpMin, TpDefault, TpMax}
AngleChoices == {AngleMin, 5, AngleDefault, 45, 85, AngleMax}
TAChoices == {TAMin, TADefault}
DICChoices == {DICDefault, DICMax}
RiskChoices == {RiskMin, RiskDefault, RiskMax}
AreaChoices == {-5, 0, 100, AreaDefault}
CostChoices == {-1, 0, CostDefault, 1500, 2000, 2500}
SedHs == 1..(HsMax \div 50)        \* 0.5 m .. 5.0 m in half metres

(* The sequences handed to predict_shoreline_change: a line through        *)
(* base with the given slope, with one sample displaced by bump.           *)
Family(base, slope, k, bump) ==
    [i \in 1..N |-> base + slope * (i - 1) + (IF i = k THEN bump ELSE 0)]

Init ==
    /\ page = "welcome"
    /\ rendered = "welcome"
    /\ clicked = None
    /\ shown = {"title", "image", "Start"}
    /\ Hs = None /\ Tp = None /\ angle = None
    /\ Hs_array = None /\ angle_array = None
    /\ TA = None /\ DIC = None /\ omega = None
    /\ chemFailed = FALSE
    /\ uploaded = None
    /\ erosion = None /\ flood = None /\ exposure = None /\ risk_index = None
    /\ area = None /\ cost_per_m2 = None /\ total_cost = None
    /\ call = None /\ ret = None

Next ==
    \/ \E click \in Buttons \cup {None} : WelcomeRun(click)
    \/ \E click \in Buttons \cup {None} : MenuRun(click)
    \/ \E click \in Buttons \cup {None}, h \in HsChoices, t \in TpChoices,
          a \in AngleChoices : WaveRun(click, h, t, a)
    \/ \E click \in Buttons \cup {None}, ta \in TAChoices, dic \in DICChoices,
          o \in Outcomes : ChemistryRun(click, ta, dic, o)
    \/ \E click \in Buttons \cup {None}, file \in Files :
          BathymetryRun(click, file)
    \/ \E click \in Buttons \cup {None}, e, f, x \in RiskChoices :
          RiskRun(click, e, f, x)
    \/ \E click \in Buttons \cup {None} : MappingRun(click)
    \/ \E click \in Buttons \cup {None}, a \in AreaChoices, c \in CostChoices :
          CostRun(click, a, c)

Spec == Init /\ [][Next]_vars

(* The wave page with its sliders over their whole ranges, from the run    *)
(* that first renders it: the arrow keys move the height or the angle      *)
(* slider by one step, the period slider is dragged to one of TpChoices.   *)
InitWave ==
    /\ page = "wave"
    /\ rendered = "wave"
    /\ clicked = None
    /\ shown = {"title", "chart", "Download", "Back"}
    /\ Hs = HsDefault /\ Tp = TpDefault /\ angle = AngleDefault
    /\ Hs_array = HsSweep(HsDefault) /\ angle_array = AngleSweep(AngleDefault)
    /\ TA = None /\ DIC = None /\ omega = None
    /\ chemFailed = FALSE
    /\ uploaded = None
    /\ erosion = None /\ flood = None /\ exposure = None /\ risk_index = None
    /\ area = None /\ cost_per_m2 = None /\ total_cost = None
    /\ call = None /\ ret = None

NextWave ==
    \/ \E d \in {<<1, 0>>, <<-1, 0>>, <<0, 1>>, <<0, -1>>} :
          WaveRun(None, Hs + d[1], Tp, angle + d[2])
    \/ \E t \in TpChoices : WaveRun(None, Hs, t, angle)

SpecWave == InitWave /\ [][NextWave]_vars

(* The core functions on arguments drawn from the bounded sets. *)
InitKernel ==
    /\ page = "welcome"
    /\ rendered = "welcome"
    /\ clicked = None
    /\ shown = {"title", "image", "Start"}
    /\ Hs = None /\ Tp = None /\ angle = None
    /\ Hs_array = None /\ angle_array = None
    /\ TA = None /\ DIC = None /\ omega = None
    /\ chemFailed = FALSE
    /\ uploaded = None
    /\ erosion = None /\ flood = None /\ exposure = None /\ risk_index = None
    /\ area = None /\ cost_per_m2 = None /\ total_cost = None
    /\ \/ \E h \in SedHs, a \in AngleMin..AngleMax, t \in TpMin..TpMax :
              call = SedimentCall(h, a, t)
       \/ \E base \in 0..MaxBase, slope \in (0 - MaxSlope)..MaxSlope,
              k \in 1..N, bump \in (0 - MaxBump)..MaxBump :
              call = ShorelineCall(Family(base, slope, k, bump))
    /\ ret = None

NextKernel == CallSediment \/ CallShoreline

SpecKernel == InitKernel /\ [][NextKernel]_vars

-----------------------------------------------------------------------------
(* Properties *)

IsShorelineReturn == call.fn = "predict_shoreline_change" /\ call.returned
IsSedimentReturn == call.fn = "estimate_sediment_transport" /\ call.returned

(* C1: predict_shoreline_change(Q) has the length of Q, is                 *)
(* -(Q[i+1]-Q[i-1])/(2*100) at every interior index, -(Q[1]-Q[0])/100 at   *)
(* the first and -(Q[N-1]-Q[N-2])/100 at the last index, and is all zero   *)
(* for a constant Q.  (Indices are from 1 here.)                           *)
ShorelineChangeIsNegatedGradient ==
    IsShorelineReturn =>
        LET Q == call.Q_sed
            R == ret
        IN  /\ Len(Q) = N
            /\ Len(R) = Len(Q)
            /\ \A i \in 1..N : R[i].den > 0
            /\ \A i \in 2..(N - 1) :
                  R[i].num * (2 * 100) = (0 - (Q[i+1] - Q[i-1])) * R[i].den
            /\ R[1].num * 100 = (0 - (Q[2] - Q[1])) * R[1].den
            /\ R[N].num * 100 = (0 - (Q[N] - Q[N-1])) * R[N].den
            /\ (\A i \in 1..N : Q[i] = Q[1]) => \A i \in 1..N : R[i].num = 0

ShorelineChangeWitness ==
    /\ IsShorelineReturn
    /\ ret[1].num < 0
    /\ \E i \in 2..(N - 1) : ret[i].num > 0

(* C2: the height sweep has 20 evenly spaced, non-decreasing values from   *)
(* max(0.1, Hs-0.5) to Hs+0.5; from 1.5 to 2.5 for Hs = 2.0.               *)
HsSweepShape ==
    rendered = "wave" =>
        /\ Len(Hs_array) = 20
        /\ \A i \in 1..19 :
              /\ Hs_array[i+1] - Hs_array[i] = Hs_array[2] - Hs_array[1]
              /\ Hs_array[i] <= Hs_array[i+1]
        /\ Hs_array[1] = 19 * (IF Hs - 50 > 10 THEN Hs - 50 ELSE 10)
        /\ Hs_array[20] = 19 * (Hs + 50)
        /\ Hs = 200 => Hs_array[1] = 19 * 150 /\ Hs_array[20] = 19 * 250

HsSweepWitness ==
    /\ rendered = "wave"
    /\ Hs = 50
    /\ Hs_array[1] = 19 * 10
    /\ Hs_array[20] = 19 * 100

(* C3: every element of the angle sweep lies in [0, 90]; the sweep is      *)
(* non-decreasing from max(0, angle-10) to min(90, angle+10); its lower    *)
(* end never exceeds its upper end.                                        *)
AngleSweepInRange ==
    rendered = "wave" =>
        /\ Len(angle_array) = 20
        /\ \A i \in 1..20 : 0 <= angle_array[i] /\ angle_array[i] <= 19 * 90
        /\ \A i \in 1..19 : angle_array[i] <= angle_array[i+1]
        /\ angle_array[1] = 19 * (IF angle - 10 > 0 THEN angle - 10 ELSE 0)
        /\ angle_array[20] = 19 * (IF angle + 10 < 90 THEN angle + 10 ELSE 90)
        /\ angle_array[1] <= angle_array[20]
        /\ angle <= 10 => angle_array[1] = 0
        /\ angle >= 80 => angle_array[20] = 19 * 90

AngleSweepWitness ==
    /\ rendered = "wave"
    /\ angle = 85
    /\ angle_array[1] = 19 * 75
    /\ angle_array[20] = 19 * 90

(* C4 as stated: the transport is zero at 0 and 90 degrees, positive       *)
(* below 45 degrees and negative above.                                    *)
SedimentChangesSignAt45 ==
    IsSedimentReturn =>
        /\ call.angle \in {0, 90} => ret = 0
        /\ (0 < call.angle /\ call.angle < 45) => ret > 0
        /\ (45 < call.angle /\ call.angle < 90) => ret < 0

(* C4 amended: the transport is zero at 0 degrees, positive at every angle *)
(* above 0 and below 90 with its maximum at 45 degrees, and at 90 degrees  *)
(* a positive residue within the tolerance of the sine of pi.              *)
SedimentPositiveBelow90 ==
    IsSedimentReturn =>
        LET scale == K100 * call.Hs * call.Hs * call.Tp
        IN  /\ call.angle = 0 => ret = 0
            /\ (0 < call.angle /\ call.angle < 90) => ret > scale * SinTol
            /\ call.angle = 90 => (0 < ret /\ ret <= scale * SinTol)
            /\ ret <= estimate_sediment_transport(call.Hs, 45, call.Tp)
            /\ ret <= scale * SinScale

SedimentWitness ==
    /\ IsSedimentReturn
    /\ call.angle = 60
    /\ ret > 0

(* C5: a failing carbonate_impact shows the error message and not the      *)
(* metric, the run completes with the Back button, the page changes only   *)
(* by that button, and a wave page rendered later has its sweeps.          *)
ChemistryErrorIsContained ==
    /\ (rendered = "chemistry" /\ omega.raised) =>
          /\ "error" \in shown
          /\ "metric" \notin shown
          /\ "exception" \notin shown
          /\ "Back" \in shown
          /\ page = IF clicked = "Back" THEN "menu" ELSE "chemistry"
    /\ (chemFailed /\ rendered = "wave") =>
          /\ {"chart", "Download", "Back"} \subseteq shown
          /\ Len(Hs_array) = N /\ Len(angle_array) = N
          /\ Hs_array[N] = (N - 1) * (Hs + 50)

ChemistryErrorWitness ==
    /\ rendered = "chemistry"
    /\ omega.raised
    /\ clicked = "Back"
    /\ page = "menu"
    /\ "error" \in shown

(* C6 as stated: the cost shown is length * height * rate[structureType]   *)
(* for one of the three structure types, the area being length * height.   *)
Rate == [Seawall |-> 1500, Jetty |-> 2000, Breakwater |-> 2500]
CostInputsArePositive ==
    rendered = "cost" =>
        /\ area > 0
        /\ cost_per_m2 > 0
        /\ total_cost > 0
        /\ total_cost = area * cost_per_m2

(* C8: an uploaded table is shown; the map is rendered exactly when the    *)
(* table has both a latitude and a longitude column; the run completes     *)
(* and the page changes only by the Back button.                           *)
BathymetryDegradesToTable ==
    (rendered = "bathymetry" /\ uploaded.kind = "table") =>
        /\ "table" \in shown
        /\ "map" \in shown <=> {"latitude", "longitude"} \subseteq uploaded.columns
        /\ "exception" \notin shown
        /\ "Back" \in shown
        /\ page = IF clicked = "Back" THEN "menu" ELSE "bathymetry"

BathymetryWitness ==
    /\ rendered = "bathymetry"
    /\ uploaded.kind = "table"
    /\ uploaded.columns = {"latitude", "depth"}
    /\ "table" \in shown
    /\ "map" \notin shown
    /\ page = "bathymetry"

(* C9: at the end of every run the page the run rendered is the value of   *)
(* st.session_state.page.                                                  *)
RenderedPageIsSessionPage == rendered = page

(* C10: the page is one of the eight pages; it changes only from welcome   *)
(* to menu by Start, from menu to a module by that module's button, and    *)
(* from a module to menu by Back; a run without a click leaves it; once    *)
(* it has left welcome it is never welcome again.                          *)
NavigationTransitions ==
    [][/\ page \in Pages /\ page' \in Pages
       /\ page' # page =>
             \/ page = "welcome" /\ page' = "menu" /\ clicked' = "Start"
             \/ page = "menu" /\ page' \in Modules /\ clicked' = page'
             \/ page \in Modules /\ page' = "menu" /\ clicked' = "Back"
       /\ clicked' = None => page' = page
       /\ page # "welcome" => page' # "welcome"]_vars

NavigationWitness ==
    /\ page = "menu"
    /\ rendered \in Modules
    /\ clicked = "Back"

====
